---- MODULE Spec2Model ----
(***************************************************************************)
(* State-machine model of the PNEO transfer-event indexer                  *)
(* (IndexerService, src/unnamed/part_000 lines 115-287) and of the parts   *)
(* of BlockchainService it reads.  One action per resumption of the async  *)
(* handler handleIndexing: the code between two awaits runs atomically on  *)
(* the JavaScript event loop, so each await is one step.                   *)
(***************************************************************************)
EXTENDS Integers, Sequences, FiniteSets, TLC

\* ------------------------------------------------------------------ bounds
\* Highest block the chain can reach in the model.
MaxHeight == 4
\* Block span of one log query.  The code uses 1000 (part_000 line 210); the
\* model scales the span down with the chain so that several batches occur.
BATCH_SIZE == 2
\* Invocation slots of handleIndexing that can be in flight at once.
NumCycles == 2
\* Height of the chain while overlapping invocations are examined.
OverlapHeight == 3
\* Hex digits of an address after the 0x prefix (40 in line 575).
ADDRESS_DIGITS == 2

\* ------------------------------------------------------------- sentinels
\* Result of getIndexerMetadata when no row exists (falsy `meta`).
NoMeta == -1
\* JavaScript NaN, produced by parseInt on a non-numeric string.
NaN == -2
\* A local of handleIndexing that has not been assigned yet.
Unset == -3

Procs == 1..NumCycles

Min(a, b) == IF a < b THEN a ELSE b

\* JavaScript relational operators: every comparison with NaN is false.
JsGt(a, b) == a # NaN /\ b # NaN /\ a > b
JsLe(a, b) == a # NaN /\ b # NaN /\ a <= b

\* ------------------------------------------------------------- addresses
ZERO_ADDRESS == "0x00"

\* String.prototype.toLowerCase on the addresses of the model: checksum-cased
\* spellings map to their lower-case spelling, everything else is unchanged.
ToLowerCase(a) ==
  CASE a = "0xAD" -> "0xad"
    [] a = "0xA1" -> "0xa1"
    [] a = "0xB2" -> "0xb2"
    [] OTHER -> a

\* ------------------------------------------------------- contract address
\* The contract address is text: a sequence of characters.
\* The character class [a-fA-F0-9] of line 575.
HexChars ==
  {"0", "1", "2", "3", "4", "5", "6", "7", "8", "9",
   "a", "b", "c", "d", "e", "f", "A", "B", "C", "D", "E", "F"}

\* Line 575: /^0x[a-fA-F0-9]{40}$/.test(address), with ADDRESS_DIGITS digits.
isValidEthereumAddress(address) ==
  /\ Len(address) = 2 + ADDRESS_DIGITS
  /\ address[1] = "0"
  /\ address[2] = "x"
  /\ \A k \in 3..Len(address) : address[k] \in HexChars

\* String.prototype.toLowerCase (line 146) on the characters of an address.
LowerChar(ch) ==
  CASE ch = "A" -> "a" [] ch = "B" -> "b" [] ch = "C" -> "c"
    [] ch = "D" -> "d" [] ch = "E" -> "e" [] ch = "F" -> "f"
    [] ch = "X" -> "x"
    [] OTHER -> ch
LowerChars(address) == [k \in DOMAIN address |-> LowerChar(address[k])]

\* Arguments given to updateContractAddress: a prefix, right or wrong, and
\* one digit too few, the right number, or one too many, with an upper-case
\* hex digit and a character that is no hex digit among them.
AddressPrefixes == {<<"0", "x">>, <<"0", "X">>, <<"x">>, <<>>}
AddressBodies ==
  UNION {[1..n -> {"0", "F", "g"}] :
           n \in (ADDRESS_DIGITS - 1)..(ADDRESS_DIGITS + 1)}
AddressInputs == {pre \o body : pre \in AddressPrefixes, body \in AddressBodies}

\* SMART_CONTRACT_ADDRESS of the running service (line 318).
ConfiguredContract == <<"0", "x">> \o [k \in 1..ADDRESS_DIGITS |-> "F"]

\* updateContractAddress with the assignment of lines 552-560 in force.
UpdatedContract_Assigns(contract, newContractAddress) == newContractAddress

\* Lines 552-560: the assignment to this.contract is commented out, the
\* contract is the one initializeThirdweb made.
UpdatedContract(contract, newContractAddress) == contract

\* ------------------------------------------------------------ configuration
\* Values the environment may give PNEO_CONTRACT_BLOCK; "unset" is the absent
\* setting, for which configService.get returns the default '0'.
ConfigBlockValues == {"unset", "1", "abc"}

\* parseInt(s, 10) on the configuration strings of the model.
ParseInt10(s) ==
  CASE s = "0" -> 0
    [] s = "1" -> 1
    [] s = "2" -> 2
    [] OTHER -> NaN

\* configService.get('PNEO_CONTRACT_BLOCK', '0') followed by parseInt.
ContractPneoBlock(cfg) == ParseInt10(IF cfg = "unset" THEN "0" ELSE cfg)

\* ADMIN_WALLET_ADDRESS as configured (checksum-cased), lower-cased by the
\* constructor.
ADMIN_WALLET_ADDRESS == "0xAD"

\* centralServerWalletAddress with a defect: the configured spelling is kept.
centralServerWalletAddress_AsConfigured == ADMIN_WALLET_ADDRESS

centralServerWalletAddress == ToLowerCase(ADMIN_WALLET_ADDRESS)

\* ------------------------------------------------------------------ chain
\* The Transfer logs of the watched contract, in chain order.  topics[2] and
\* topics[3] (topics[1], topics[2] in the 0-based source) carry the from and
\* to address; data is the amount in whole tokens.  Log 2 goes from the zero
\* address to the zero address; logs 5 and 6 are two events of one
\* transaction; log 7 carries the Transfer topic with a single indexed
\* argument, so reading its third topic throws.
ChainLogs ==
  << [transactionHash |-> "h1", blockNumber |-> 1,
      topics |-> <<"T", ZERO_ADDRESS, "0xA1">>, data |-> 5],
     [transactionHash |-> "h6", blockNumber |-> 2,
      topics |-> <<"T", ZERO_ADDRESS, ZERO_ADDRESS>>, data |-> 4],
     [transactionHash |-> "h2", blockNumber |-> 2,
      topics |-> <<"T", "0xA1", "0xB2">>, data |-> 1],
     [transactionHash |-> "h3", blockNumber |-> 2,
      topics |-> <<"T", "0xA1", ZERO_ADDRESS>>, data |-> 2],
     [transactionHash |-> "h4", blockNumber |-> 3,
      topics |-> <<"T", ZERO_ADDRESS, "0xB2">>, data |-> 3],
     [transactionHash |-> "h4", blockNumber |-> 3,
      topics |-> <<"T", "0xB2", ZERO_ADDRESS>>, data |-> 1],
     [transactionHash |-> "h5", blockNumber |-> 4,
      topics |-> <<"T", ZERO_ADDRESS>>, data |-> 0] >>

LogIds == 1..Len(ChainLogs)

\* eth_getTransactionReceipt(hash).from : the sender of each transaction.
ReceiptFrom(hash) ==
  CASE hash = "h1" -> "0xAD"
    [] hash = "h3" -> "0xA1"
    [] hash = "h6" -> "0xad"
    [] OTHER -> "0xB2"

\* eth_getBlockByNumber(n).timestamp, in seconds.
BlockTimestamp(n) == 100 + n

\* Off-chain tables read by the attribution: mint requests by transaction
\* hash and primary SPV by wallet address; 0 stands for "no row".
MintRequestSpv(hash) == IF hash = "h1" THEN 7 ELSE 0
PrimarySpv(wallet) == IF wallet = "0xa1" THEN 12 ELSE 0

\* eth_getLogs(address, fromBlock, toBlock, [TRANSFER_TOPIC]): the ids of the
\* chain's logs whose block lies in the range, in chain order.
LogsInRange(from, to) ==
  SelectSeq([k \in LogIds |-> k],
            LAMBDA k : ChainLogs[k].blockNumber >= from /\ ChainLogs[k].blockNumber <= to)

\* ------------------------------------------------------- processLogs, pure
\* Lines 233-236: reading topics[1] and topics[2] throws on a log with
\* fewer topics.
Decodes(log) == Len(log.topics) >= 3
fromAddressOf(log) == ToLowerCase(log.topics[2])
toAddressOf(log) == ToLowerCase(log.topics[3])

\* Classify with a defect: the to address is tested first.
Classify_BurnFirst(fromAddress, toAddress) ==
  IF toAddress = ZERO_ADDRESS THEN "Burn"
  ELSE IF fromAddress = ZERO_ADDRESS THEN "Mint"
  ELSE "Transfer"

\* Lines 238-240.
Classify(fromAddress, toAddress) ==
  IF fromAddress = ZERO_ADDRESS THEN "Mint"
  ELSE IF toAddress = ZERO_ADDRESS THEN "Burn"
  ELSE "Transfer"

\* Lines 268-286.
determineSPVAttribution(callerAddress, txHash) ==
  IF callerAddress = centralServerWalletAddress
  THEN [executionMethod |-> "CENTRAL_SERVER", spvId |-> MintRequestSpv(txHash)]
  ELSE [executionMethod |-> "SPV_INDIVIDUAL", spvId |-> PrimarySpv(callerAddress)]

\* The argument of createTransaction, lines 245-261.
TxRow(log) ==
  LET callerAddress == ToLowerCase(ReceiptFrom(log.transactionHash))
      attr == determineSPVAttribution(callerAddress, log.transactionHash)
  IN [hash |-> log.transactionHash,
      blockNumber |-> log.blockNumber,
      timestamp |-> BlockTimestamp(log.blockNumber) * 1000,
      type |-> Classify(fromAddressOf(log), toAddressOf(log)),
      amount |-> log.data,
      callerAddress |-> callerAddress,
      executionMethod |-> attr.executionMethod,
      spvIdFk |-> attr.spvId,
      fromAddress |-> fromAddressOf(log),
      toAddress |-> toAddressOf(log)]

\* ------------------------------------------------------- MintingRepository
\* createTransaction with a defect: a plain insert, with no key on the hash.
createTransaction_Insert(rows, row) == rows \cup {row}

\* createTransaction: the transactions table is keyed by hash; a row whose
\* hash is already stored replaces the stored row.
createTransaction(rows, row) ==
  {r \in rows : r.hash # row.hash} \cup {row}

\* ------------------------------------------------------- handleIndexing, pure
\* Variants of FromBlock with a defect: the checkpoint is ignored; the block
\* of the checkpoint is scanned again; the block after the checkpoint is
\* skipped.
FromBlock_IgnoresCheckpoint(meta, deployBlock) == deployBlock
FromBlock_NoIncrement(meta, deployBlock) ==
  IF meta # NoMeta THEN meta ELSE deployBlock
FromBlock_SkipsBlock(meta, deployBlock) ==
  IF meta # NoMeta THEN meta + 2 ELSE deployBlock

\* Lines 174-179.
FromBlock(meta, deployBlock) ==
  IF meta # NoMeta THEN meta + 1 ELSE deployBlock

\* Line 202.
NoNewBlocks(fromBlock, latestBlock) == JsGt(fromBlock, latestBlock)

\* Line 211, loop condition.
InLoop(start, latestBlock) == JsLe(start, latestBlock)

\* BatchEnd with a defect: the batch spans twice the maximum width.
BatchEnd_DoubleSpan(start, latestBlock) ==
  Min(start + BATCH_SIZE + BATCH_SIZE - 1, latestBlock)

\* BatchEnd with a defect: the last batch is not cut at the sampled height.
BatchEnd_IgnoresLatest(start, latestBlock) == start + BATCH_SIZE - 1

\* BatchEnd with a defect: the batch is one block too long.
BatchEnd_OffByOne(start, latestBlock) == Min(start + BATCH_SIZE, latestBlock)

\* Line 212.
BatchEnd(start, latestBlock) == Min(start + BATCH_SIZE - 1, latestBlock)

\* Line 211, loop increment.
NextStart(start) == start + BATCH_SIZE

\* AfterLog with a defect: the loop ends after its first iteration.
AfterLog_SkipsRest(i, logs) == "setIndexerMetadata"

\* Line 231: the log handled after the one at position i, or the end of the
\* loop.
AfterLog(i, logs) == IF i < Len(logs) THEN "processLogs" ELSE "setIndexerMetadata"

\* AfterCaught with a defect: the failure of one log leaves the loop, as if
\* the try of line 232 enclosed the loop instead of its body.
AfterCaught_LeavesLoop(i, logs) == "setIndexerMetadata"

\* Lines 262-264: the catch inside the loop logs the failure and the loop goes
\* on with the next log.
AfterCaught(i, logs) == AfterLog(i, logs)

\* eth_blockNumber answers with a hex quantity; parseInt(hex, 16), line 200.
ToHex(n) ==
  CASE n = 0 -> "0x0" [] n = 1 -> "0x1" [] n = 2 -> "0x2" [] n = 3 -> "0x3"
    [] n = 4 -> "0x4" [] n = 5 -> "0x5" [] n = 6 -> "0x6" [] n = 7 -> "0x7"
    [] n = 8 -> "0x8" [] n = 9 -> "0x9" [] n = 10 -> "0xa" [] n = 11 -> "0xb"
    [] OTHER -> "0xc"
ParseInt16(h) ==
  CASE h = "0x0" -> 0 [] h = "0x1" -> 1 [] h = "0x2" -> 2 [] h = "0x3" -> 3
    [] h = "0x4" -> 4 [] h = "0x5" -> 5 [] h = "0x6" -> 6 [] h = "0x7" -> 7
    [] h = "0x8" -> 8 [] h = "0x9" -> 9 [] h = "0xa" -> 10 [] h = "0xb" -> 11
    [] OTHER -> 12

\* LatestBlockHex with a defect: whatever the node answered is read as a height.
LatestBlockHex_AcceptsAny(raw) == raw.hex

\* Lines 185-193: the hex string taken from the answer of eth_blockNumber, or
\* "null" when the answer is unusable.  An answer is [kind, hex].
LatestBlockHex(raw) ==
  IF raw.kind = "string" \/ raw.kind = "objectWithResult" THEN raw.hex ELSE "null"

\* ------------------------------------------------------------------ state
VARIABLES
  blockchainService,  \* BlockchainService: contract address, last update call
  config,             \* PNEO_CONTRACT_BLOCK as set in the environment
  contractPneoBlock,  \* IndexerService.contractPneoBlock
  head,               \* height of the newest block of the chain
  checkpoint,         \* indexer metadata row 'last_indexed_block', or NoMeta
  transactions,       \* rows of the transactions table
  errorLog,           \* transaction hashes reported by logger.error, line 263
  cyc,                \* per invocation of handleIndexing: position and locals
  scanned             \* history: blocks covered by an issued log query

vars == <<blockchainService, config, contractPneoBlock, head, checkpoint, transactions, errorLog,
          cyc, scanned>>

\* An invocation slot with no invocation in it.  Beside the locals of
\* handleIndexing the record keeps what the invocation did: queries and writes
\* list its log queries and checkpoint writes, wroteRow tells whether it wrote
\* a row, setFailed whether its checkpoint write threw.  For the current
\* batch: failed holds the positions of the logs that ended in the catch of
\* line 262, lookups the positions of the logs whose receipt was requested
\* (line 243), fetchFailed and createFailed tell whether eth_getLogs or
\* createTransaction threw, rescan whether the first block of the batch had
\* been queried before, before is the transactions table when the batch began.
IdleCycle ==
  [pc |-> "idle", result |-> "none", meta |-> NoMeta, fromBlock |-> Unset,
   latestBlock |-> Unset, start |-> Unset, end |-> Unset, logs |-> <<>>,
   i |-> 1, queries |-> <<>>, writes |-> <<>>, wroteRow |-> FALSE,
   failed |-> {}, lookups |-> {}, fetchFailed |-> FALSE,
   createFailed |-> FALSE, setFailed |-> FALSE, rescan |-> FALSE,
   before |-> {}, heightAnswer |-> "none"]

\* BlockchainService after initializeThirdweb (lines 314-364) made the
\* contract of the given address; no update call yet.
ServiceWith(address) ==
  [contract |-> address, updateArg |-> <<>>, updateResult |-> "none"]

Init ==
  /\ blockchainService = ServiceWith(ConfiguredContract)
  /\ config \in ConfigBlockValues
  /\ contractPneoBlock = ContractPneoBlock(config)
  /\ head = 0
  /\ checkpoint = NoMeta
  /\ transactions = {}
  /\ errorLog = {}
  /\ cyc = [p \in Procs |-> IdleCycle]
  /\ scanned = {}

Running(p) == cyc[p].pc # "idle"

\* The end of an invocation: back to idle, keeping the record of what it did.
Finish(c, result) == [c EXCEPT !.pc = "idle", !.result = result,
                                !.logs = <<>>, !.i = 1, !.before = {}]

\* An error that leaves handleIndexing through its caller: the promise the
\* scheduler holds is rejected and the invocation never reports its end.
OnThrow_Propagates(c) == [c EXCEPT !.pc = "thrown", !.result = "error"]

\* Lines 225-227: an error thrown inside the try of line 169 is caught,
\* logged, and the invocation returns normally.
OnThrow(c) == Finish(c, "error")

\* Lines 211-215: one iteration of the batch loop up to its first await, the
\* log query for [s, BatchEnd(s)].
EnterBatch(c, s) ==
  [c EXCEPT !.pc = "fetchTransferLogs", !.start = s,
            !.end = BatchEnd(s, c.latestBlock), !.logs = <<>>, !.i = 1,
            !.queries = Append(@, <<s, BatchEnd(s, c.latestBlock)>>),
            !.failed = {}, !.lookups = {}, !.fetchFailed = FALSE,
            !.createFailed = FALSE,
            !.rescan = (s \in scanned), !.before = transactions]

\* Blocks covered by the query EnterBatch issues.
QueriedBlocks(c, s) == s..BatchEnd(s, c.latestBlock)

\* The rows of the table that belong to blocks from..to.
RowsIn(rows, from, to) == {r \in rows : r.blockNumber >= from /\ r.blockNumber <= to}

\* ---------------------------------------------------------------- actions
\* The @Interval(40000) timer calls handleIndexing (lines 165-171): the
\* invocation runs to its first await, the read of the checkpoint.
Tick(p) ==
  /\ ~Running(p)
  /\ cyc' = [cyc EXCEPT ![p] = [IdleCycle EXCEPT !.pc = "getIndexerMetadata",
                                                 !.result = "running"]]
  /\ UNCHANGED <<blockchainService, config, contractPneoBlock, head, checkpoint, transactions,
                 errorLog, scanned>>

\* Lines 171-184: the checkpoint read returns (or throws into the catch of
\* line 225); fromBlock is computed and eth_blockNumber is sent.
GetIndexerMetadata(p) ==
  /\ cyc[p].pc = "getIndexerMetadata"
  /\ \E ok \in BOOLEAN :
       cyc' = [cyc EXCEPT ![p] =
                 IF ok
                 THEN [@ EXCEPT !.pc = "eth_blockNumber", !.meta = checkpoint,
                                !.fromBlock = FromBlock(checkpoint, contractPneoBlock)]
                 ELSE OnThrow(@)]
  /\ UNCHANGED <<blockchainService, config, contractPneoBlock, head, checkpoint, transactions,
                 errorLog, scanned>>

\* Heights eth_blockNumber may report: the head, or the block before it when
\* the answering node of the provider lags by one block.
ReportedHeights == {h \in {head - 1, head} : h >= 0}

\* The answers of eth_blockNumber: a hex string, an object carrying one, null,
\* or a value of another type.
BlockNumberAnswers ==
  [kind : {"string", "objectWithResult", "null", "number"},
   hex : {ToHex(h) : h \in ReportedHeights}]

\* What the node's answer is, whatever the code makes of it: a hex string or
\* an object with a string result carries a height, anything else does not.
AnswerClass(raw) ==
  IF raw.kind \in {"string", "objectWithResult"} THEN "usable" ELSE "unusable"

\* Lines 184-215: eth_blockNumber returns (or throws); the invocation ends
\* when there is no usable height or nothing to index, otherwise the loop is
\* entered and the first log query is sent.
EthBlockNumber(p) ==
  /\ cyc[p].pc = "eth_blockNumber"
  /\ \/ /\ cyc' = [cyc EXCEPT ![p] =
                      OnThrow([@ EXCEPT !.heightAnswer = "throw"])]
        /\ UNCHANGED scanned
     \/ \E raw \in BlockNumberAnswers :
          LET hex == LatestBlockHex(raw)
              latest == ParseInt16(hex)
              answered == [cyc[p] EXCEPT !.heightAnswer = AnswerClass(raw)]
              c == [answered EXCEPT !.latestBlock = latest]
          IN IF hex = "null"
             THEN /\ cyc' = [cyc EXCEPT ![p] = Finish(answered, "noHeight")]
                  /\ UNCHANGED scanned
             ELSE IF NoNewBlocks(c.fromBlock, latest)
             THEN /\ cyc' = [cyc EXCEPT ![p] = Finish(c, "noWork")]
                  /\ UNCHANGED scanned
             ELSE IF InLoop(c.fromBlock, latest)
             THEN /\ cyc' = [cyc EXCEPT ![p] = EnterBatch(c, c.fromBlock)]
                  /\ scanned' = scanned \cup QueriedBlocks(c, c.fromBlock)
             ELSE /\ cyc' = [cyc EXCEPT ![p] = Finish(c, "completed")]
                  /\ UNCHANGED scanned
  /\ UNCHANGED <<blockchainService, config, contractPneoBlock, head, checkpoint, transactions,
                 errorLog>>

\* Lines 149-162 and 215-216: eth_getLogs returns the logs of the range, or
\* throws and fetchTransferLogs returns [] from its catch; processLogs starts
\* on the result (and returns at once when there is no log).
FetchTransferLogs(p) ==
  /\ cyc[p].pc = "fetchTransferLogs"
  /\ \E ok \in BOOLEAN :
       LET c == cyc[p]
           logs == IF ok THEN LogsInRange(c.start, c.end) ELSE <<>>
       IN cyc' = [cyc EXCEPT ![p] =
                    [c EXCEPT !.logs = logs, !.i = 1, !.fetchFailed = ~ok,
                              !.pc = IF logs = <<>> THEN "setIndexerMetadata"
                                     ELSE "processLogs"]]
  /\ UNCHANGED <<blockchainService, config, contractPneoBlock, head, checkpoint, transactions,
                 errorLog, scanned>>

\* Lines 231-265: one iteration of the loop of processLogs, on the log at
\* position i.  The iteration ends in the catch of line 262 when the log does
\* not decode, when the receipt, block or attribution lookup throws, or when
\* createTransaction throws; a plain transfer is skipped at line 241.
ProcessLog(p) ==
  /\ cyc[p].pc = "processLogs"
  /\ LET c == cyc[p]
         log == ChainLogs[c.logs[c.i]]
         next == AfterLog(c.i, c.logs)
         Caught(lookedUp, createThrew) ==
           /\ cyc' = [cyc EXCEPT ![p] =
                        [c EXCEPT !.pc = AfterCaught(c.i, c.logs), !.i = c.i + 1,
                                  !.failed = @ \cup {c.i},
                                  !.lookups = IF lookedUp THEN @ \cup {c.i} ELSE @,
                                  !.createFailed = @ \/ createThrew]]
           /\ errorLog' = errorLog \cup {log.transactionHash}
           /\ UNCHANGED transactions
     IN IF ~Decodes(log)
        THEN Caught(FALSE, FALSE)
        ELSE IF Classify(fromAddressOf(log), toAddressOf(log)) = "Transfer"
        THEN /\ cyc' = [cyc EXCEPT ![p] = [c EXCEPT !.pc = next, !.i = c.i + 1]]
             /\ UNCHANGED <<transactions, errorLog>>
        ELSE \/ Caught(TRUE, FALSE)
             \/ Caught(TRUE, TRUE)
             \/ /\ transactions' = createTransaction(transactions, TxRow(log))
                /\ cyc' = [cyc EXCEPT ![p] =
                             [c EXCEPT !.pc = next, !.i = c.i + 1,
                                       !.lookups = @ \cup {c.i},
                                       !.wroteRow = TRUE]]
                /\ UNCHANGED errorLog
  /\ UNCHANGED <<blockchainService, config, contractPneoBlock, head, checkpoint, scanned>>

\* Lines 219-221 and 211: the checkpoint write returns and the loop goes on
\* with the next batch or ends; or the write throws into the catch of line 225.
SetIndexerMetadata(p) ==
  /\ cyc[p].pc = "setIndexerMetadata"
  /\ LET c == cyc[p]
         s == NextStart(c.start)
         written == [c EXCEPT !.writes = Append(@, c.end)]
     IN \/ /\ checkpoint' = c.end
           /\ IF InLoop(s, c.latestBlock)
              THEN /\ cyc' = [cyc EXCEPT ![p] = EnterBatch(written, s)]
                   /\ scanned' = scanned \cup QueriedBlocks(c, s)
              ELSE /\ cyc' = [cyc EXCEPT ![p] = Finish(written, "completed")]
                   /\ UNCHANGED scanned
        \/ /\ cyc' = [cyc EXCEPT ![p] = OnThrow([c EXCEPT !.setFailed = TRUE])]
           /\ UNCHANGED <<checkpoint, scanned>>
  /\ UNCHANGED <<blockchainService, config, contractPneoBlock, head, transactions, errorLog>>

\* Lines 579-581 and 145-147: the address of the watched contract, and the
\* lower-cased spelling the indexer puts into its log queries (line 152).
getCurrentContractAddress == blockchainService.contract
contractAddress == LowerChars(getCurrentContractAddress)

\* Lines 540-568: updateContractAddress(newContractAddress) throws on an
\* address that fails isValidEthereumAddress and returns otherwise.
UpdateContractAddress(newContractAddress) ==
  /\ blockchainService' =
       IF isValidEthereumAddress(newContractAddress)
       THEN [contract |-> UpdatedContract(blockchainService.contract,
                                          newContractAddress),
             updateArg |-> newContractAddress, updateResult |-> "returned"]
       ELSE [blockchainService EXCEPT !.updateArg = newContractAddress,
                                      !.updateResult = "threw"]
  /\ UNCHANGED <<config, contractPneoBlock, head, checkpoint, transactions,
                 errorLog, cyc, scanned>>

\* The chain grows by one block.
NewBlock ==
  /\ head < MaxHeight
  /\ head' = head + 1
  /\ UNCHANGED <<blockchainService, config, contractPneoBlock, checkpoint, transactions, errorLog,
                 cyc, scanned>>

\* The process is terminated while an invocation is in flight and started
\* again: the constructor (lines 133-143) runs on the same configuration, the
\* tables keep what was written.
Restart ==
  /\ \E p \in Procs : Running(p)
  /\ cyc' = [p \in Procs |-> IdleCycle]
  /\ contractPneoBlock' = ContractPneoBlock(config)
  /\ blockchainService' = ServiceWith(blockchainService.contract)
  /\ UNCHANGED <<config, head, checkpoint, transactions, errorLog, scanned>>

Step(p) ==
  \/ GetIndexerMetadata(p)
  \/ EthBlockNumber(p)
  \/ FetchTransferLogs(p)
  \/ ProcessLog(p)
  \/ SetIndexerMetadata(p)

\* The program: setInterval fires whether or not an earlier invocation has
\* returned, so invocations may overlap.
Next ==
  \/ \E p \in Procs : Tick(p)
  \/ \E p \in Procs : Step(p)
  \/ NewBlock
  \/ Restart
  \/ \E a \in AddressInputs : UpdateContractAddress(a)

Spec == Init /\ [][Next]_vars

\* The program with its invocations run one at a time: a tick happens only
\* when no invocation is in flight.
TickAlone == Tick(1) /\ \A q \in Procs : ~Running(q)

NextSeq ==
  \/ TickAlone
  \/ Step(1)
  \/ NewBlock
  \/ Restart

SpecSeq == Init /\ [][NextSeq]_vars

\* SpecSeq with the event loop's guarantee: an invocation suspended at an
\* await is resumed once the awaited call returns or throws, and every awaited
\* call does one or the other.
SpecSeqFair == SpecSeq /\ WF_vars(Step(1))

\* The program around one late invocation: the chain stands at OverlapHeight,
\* the timer fires, and fires again for the next slot while the invocation of
\* the slot before it is still in flight (nothing in lines 165-166 prevents
\* it); each slot runs one invocation.
InitOverlap ==
  /\ blockchainService = ServiceWith(ConfiguredContract)
  /\ config \in ConfigBlockValues
  /\ contractPneoBlock = ContractPneoBlock(config)
  /\ head = OverlapHeight
  /\ checkpoint = NoMeta
  /\ transactions = {}
  /\ errorLog = {}
  /\ cyc = [p \in Procs |-> IdleCycle]
  /\ scanned = {}

TickOverlapping(p) ==
  /\ cyc[p].result = "none"
  /\ p > 1 => Running(p - 1)
  /\ Tick(p)

NextOverlap ==
  \/ \E p \in Procs : TickOverlapping(p)
  \/ \E p \in Procs : Step(p)

SpecOverlap == InitOverlap /\ [][NextOverlap]_vars

\* The administrative calls on a service that watches any well-formed
\* address, with the indexer idle.
InitAdmin ==
  /\ \E a \in AddressInputs :
       /\ isValidEthereumAddress(a)
       /\ blockchainService = ServiceWith(a)
  /\ config = "unset"
  /\ contractPneoBlock = ContractPneoBlock(config)
  /\ head = 0
  /\ checkpoint = NoMeta
  /\ transactions = {}
  /\ errorLog = {}
  /\ cyc = [p \in Procs |-> IdleCycle]
  /\ scanned = {}

NextAdmin == \E a \in AddressInputs : UpdateContractAddress(a)

SpecAdmin == InitAdmin /\ [][NextAdmin]_vars

\* ------------------------------------------------------------- properties
\* The elements of a sequence.
Range(q) == {q[k] : k \in 1..Len(q)}

\* The mint and burn events of the chain: the logs that decode and are not
\* plain transfers.
IsMintOrBurn(k) ==
  /\ Decodes(ChainLogs[k])
  /\ Classify(fromAddressOf(ChainLogs[k]), toAddressOf(ChainLogs[k])) # "Transfer"

\* At most one row per transaction hash.
HashUnique(rows) == \A r1, r2 \in rows : r1.hash = r2.hash => r1 = r2

\* C1. Checkpoint monotonicity: with the invocations run one at a time, no
\* step removes the stored 'last_indexed_block' or replaces it by a smaller
\* value, whether the invocation completes or aborts on an error.
C1_CheckpointMonotonic ==
  [][checkpoint # NoMeta => (checkpoint' # NoMeta /\ checkpoint' >= checkpoint)]_vars

\* C1 witness: an invocation that started from a stored checkpoint wrote a
\* further checkpoint and then aborted on an error.
C1_Witness ==
  \E p \in Procs : /\ cyc[p].meta # NoMeta
                   /\ cyc[p].writes # <<>>
                   /\ cyc[p].result = "error"

\* C2 (as claimed). Exactly-once persistence: once a checkpoint is stored and
\* no per-log failure has been reported, every mint or burn event in a block
\* from the scan start up to the checkpoint has its row in the transactions
\* table, and the table holds at most one row per transaction hash.
C2_ExactlyOnce ==
  (checkpoint # NoMeta /\ errorLog = {} /\ contractPneoBlock # NaN) =>
    /\ \A k \in LogIds :
         (/\ IsMintOrBurn(k)
          /\ ChainLogs[k].blockNumber >= contractPneoBlock
          /\ ChainLogs[k].blockNumber <= checkpoint)
           => TxRow(ChainLogs[k]) \in transactions
    /\ HashUnique(transactions)

\* C3 (as claimed). A failed log query aborts the invocation: once eth_getLogs
\* has thrown for a batch, the invocation is back at idle with an error and
\* has written no checkpoint for that batch.
C3_FailedQueryAborts ==
  \A p \in Procs :
    cyc[p].fetchFailed =>
      /\ cyc[p].pc = "idle"
      /\ cyc[p].result = "error"
      /\ cyc[p].end \notin Range(cyc[p].writes)

\* C4 (as claimed). A persistence failure is fatal to the invocation: once
\* createTransaction or setIndexerMetadata has thrown during a batch, the
\* invocation is back at idle with an error, and the checkpoint has not been
\* advanced to the end of that batch.
C4_PersistenceFailureAborts ==
  \A p \in Procs :
    (cyc[p].createFailed \/ cyc[p].setFailed) =>
      /\ cyc[p].pc = "idle"
      /\ cyc[p].result = "error"
      /\ cyc[p].end \notin Range(cyc[p].writes)

\* The positions of the current batch's logs that have been handled.
Handled(c) == 1..(c.i - 1)

\* The handled logs of the current batch that are mint or burn events and did
\* not end in the catch of line 262.
Succeeded(c) == {j \in Handled(c) : j \notin c.failed /\ IsMintOrBurn(c.logs[j])}

\* C5. Partial-failure isolation: while a batch is processed and after it,
\* every handled mint/burn log that did not fail has a row under its hash
\* (its own row, unless a later succeeding log of the batch has the same
\* hash), whatever failed before or after it; every failed log's hash is in
\* the error log; a failure does not end the batch: the remaining logs are
\* handled, then the checkpoint write for the batch's upper bound is issued,
\* and unless that write itself throws the checkpoint is the upper bound.
C5_PartialFailureIsolation ==
  \A p \in Procs :
    LET c == cyc[p] IN
      /\ c.pc \in {"processLogs", "setIndexerMetadata"} =>
           /\ \A j \in Succeeded(c) :
                \E r \in transactions :
                  /\ r.hash = ChainLogs[c.logs[j]].transactionHash
                  /\ (\A j2 \in Succeeded(c) :
                        (j2 > j) => ChainLogs[c.logs[j2]].transactionHash # r.hash)
                       => r = TxRow(ChainLogs[c.logs[j]])
           /\ \A j \in c.failed : ChainLogs[c.logs[j]].transactionHash \in errorLog
      /\ c.failed # {} =>
           \/ c.pc = "processLogs" /\ c.i <= Len(c.logs)
           \/ c.pc = "setIndexerMetadata" /\ c.i = Len(c.logs) + 1
                /\ c.end = c.queries[Len(c.queries)][2]
           \/ c.pc = "idle" /\ c.result = "error" /\ c.setFailed
           \/ c.pc = "idle" /\ c.result = "completed" /\ checkpoint = c.end
                /\ c.writes[Len(c.writes)] = c.end

\* C5 witness: all logs of a batch are handled, one failed, and a mint/burn
\* log before it and one after it succeeded.
C5_Witness ==
  \E p \in Procs :
    LET c == cyc[p] IN
      /\ c.pc = "setIndexerMetadata"
      /\ \E f \in c.failed : \E j1, j2 \in Succeeded(c) : j1 < f /\ f < j2

\* The rows a failure-free pass over the blocks from..to leaves for them: for
\* every transaction hash, the row of the last mint/burn log with that hash.
ExpectedRows(from, to) ==
  LET ids == {k \in LogIds : /\ IsMintOrBurn(k)
                             /\ ChainLogs[k].blockNumber >= from
                             /\ ChainLogs[k].blockNumber <= to}
  IN {TxRow(ChainLogs[k]) :
        k \in {k1 \in ids : \A k2 \in ids :
                 ChainLogs[k2].transactionHash = ChainLogs[k1].transactionHash
                   => k2 <= k1}}

\* A pass over the current batch has ended and no query or log of it failed.
CleanPass(c) ==
  c.pc = "setIndexerMetadata" /\ c.failed = {} /\ ~c.fetchFailed

\* C6. Idempotence: the table never holds two rows with one hash; a
\* failure-free pass over a range leaves exactly the expected rows for the
\* range; and when those rows were already in the table as the pass began
\* (the range had been processed before), the pass leaves the whole table as
\* it was.
C6_Idempotence ==
  /\ HashUnique(transactions)
  /\ \A p \in Procs :
       LET c == cyc[p] IN
         CleanPass(c) =>
           /\ RowsIn(transactions, c.start, c.end) = ExpectedRows(c.start, c.end)
           /\ RowsIn(c.before, c.start, c.end) = ExpectedRows(c.start, c.end)
                => transactions = c.before

\* C6 witness: a failure-free second pass over a range whose rows, among them
\* the row of a transaction with two events, were stored by an earlier pass.
C6_Witness ==
  \E p \in Procs :
    LET c == cyc[p] IN
      /\ CleanPass(c)
      /\ c.rescan
      /\ RowsIn(c.before, c.start, c.end) = ExpectedRows(c.start, c.end)
      /\ \E r \in c.before : r.hash = "h4" /\ r.blockNumber >= c.start

\* The ranges of q are non-empty, at most BATCH_SIZE blocks long, consecutive
\* without gap or overlap, and cover exactly the blocks a..b.
IsPartition(q, a, b) ==
  /\ Len(q) >= 1
  /\ q[1][1] = a
  /\ q[Len(q)][2] = b
  /\ \A k \in 1..Len(q) : q[k][1] <= q[k][2] /\ q[k][2] - q[k][1] + 1 <= BATCH_SIZE
  /\ \A k \in 1..(Len(q) - 1) : q[k + 1][1] = q[k][2] + 1

\* C7. Batch partition: an invocation that had fromBlock <= latestBlock and ran
\* to completion issued log queries that partition [fromBlock, latestBlock]
\* into consecutive ranges of at most BATCH_SIZE blocks, and wrote the
\* checkpoint once per query, with the query's upper bound, in the same order.
C7_BatchPartition ==
  \A p \in Procs :
    LET c == cyc[p] IN
      (c.pc = "idle" /\ c.result = "completed" /\ JsLe(c.fromBlock, c.latestBlock)) =>
        /\ IsPartition(c.queries, c.fromBlock, c.latestBlock)
        /\ Len(c.writes) = Len(c.queries)
        /\ \A k \in 1..Len(c.queries) : c.writes[k] = c.queries[k][2]

\* C7 witness: a completed invocation with a full batch followed by a shorter
\* last batch, started from the deployment block with no checkpoint stored.
C7_Witness ==
  \E p \in Procs :
    LET c == cyc[p] IN
      /\ c.pc = "idle" /\ c.result = "completed" /\ c.meta = NoMeta
      /\ Len(c.queries) >= 2
      /\ c.queries[1][2] - c.queries[1][1] + 1 = BATCH_SIZE
      /\ c.queries[Len(c.queries)][2] - c.queries[Len(c.queries)][1] + 1 < BATCH_SIZE

\* C8. Batch ordering: within an invocation the query ranges increase
\* strictly; while the query of a batch is in flight or its logs are handled,
\* the checkpoints of all earlier batches (and of no other) have been
\* written, each with its batch's upper bound; and the checkpoint write of a
\* batch is issued only when every log of the batch has been handled.
C8_BatchOrdering ==
  \A p \in Procs :
    LET c == cyc[p] IN
      /\ \A k \in 1..(Len(c.queries) - 1) : c.queries[k + 1][1] > c.queries[k][2]
      /\ \A k \in 1..Len(c.writes) : k <= Len(c.queries) /\ c.writes[k] = c.queries[k][2]
      /\ c.pc \in {"fetchTransferLogs", "processLogs", "setIndexerMetadata"} =>
           Len(c.writes) = Len(c.queries) - 1
      /\ c.pc = "fetchTransferLogs" => c.logs = <<>>
      /\ c.pc = "processLogs" => c.i <= Len(c.logs)
      /\ c.pc = "setIndexerMetadata" => c.i = Len(c.logs) + 1 \/ c.logs = <<>>

\* C8 witness: the checkpoint write of a second batch is pending after the
\* several logs of that batch were handled.
C8_Witness ==
  \E p \in Procs :
    LET c == cyc[p] IN
      /\ c.pc = "setIndexerMetadata"
      /\ Len(c.queries) >= 2
      /\ Len(c.logs) >= 2

\* C9. No-work short-circuit: an invocation that read a checkpoint and then a
\* latest height at or below it is over, without an error, has issued no log
\* query, written no row and no checkpoint, and the checkpoint is the one it
\* read.
C9_NoWorkShortCircuit ==
  \A p \in Procs :
    LET c == cyc[p] IN
      (c.meta # NoMeta /\ c.latestBlock # Unset /\ c.latestBlock <= c.meta) =>
        /\ c.pc = "idle"
        /\ c.result = "noWork"
        /\ c.queries = <<>>
        /\ c.writes = <<>>
        /\ ~c.wroteRow
        /\ checkpoint = c.meta

\* C9 witness: an invocation ended for lack of work with the latest height
\* equal to the checkpoint.
C9_Witness ==
  \E p \in Procs :
    /\ cyc[p].result = "noWork"
    /\ cyc[p].meta # NoMeta
    /\ cyc[p].latestBlock = cyc[p].meta

\* The first block an invocation queried is the block after the checkpoint it
\* read, or the deployment block when it read none.
FirstQueryAtResumePoint ==
  \A p \in Procs :
    cyc[p].queries # <<>> =>
      cyc[p].queries[1][1] =
        IF cyc[p].meta # NoMeta THEN cyc[p].meta + 1 ELSE contractPneoBlock

\* Every block from the deployment block up to the checkpoint has been
\* covered by a log query.
NoBlockSkipped ==
  (checkpoint # NoMeta /\ contractPneoBlock # NaN) =>
    \A b \in contractPneoBlock..checkpoint : b \in scanned

\* The blocks of the query of the current batch lie above the checkpoint.
NoBlockQueriedAgain ==
  \A p \in Procs :
    cyc[p].pc \in {"fetchTransferLogs", "processLogs", "setIndexerMetadata"} =>
      checkpoint < cyc[p].start

Quiescent ==
  /\ \A p \in Procs : ~Running(p)
  /\ \E p \in Procs : cyc[p].result # "none"

\* C11 (as claimed). At every quiescent point, also after an invocation that
\* aborted on an error, every stored row belongs to a block at or below the
\* stored checkpoint.
C11_NoRowAboveCheckpoint ==
  Quiescent =>
    \A r \in transactions : checkpoint # NoMeta /\ r.blockNumber <= checkpoint

\* The addresses that occur in the topics of the chain's logs, lower-cased.
LogAddresses ==
  {ToLowerCase(ChainLogs[k].topics[n]) :
     k \in {k1 \in LogIds : Decodes(ChainLogs[k1])}, n \in {2, 3}}

\* The handled logs of the current batch that are plain transfers: both
\* addresses differ from the zero address.
PlainTransfers(c) ==
  {j \in Handled(c) : /\ Decodes(ChainLogs[c.logs[j]])
                      /\ fromAddressOf(ChainLogs[c.logs[j]]) # ZERO_ADDRESS
                      /\ toAddressOf(ChainLogs[c.logs[j]]) # ZERO_ADDRESS}

\* C12. Classification: a zero from-address gives Mint, also with a zero
\* to-address; a non-zero from-address with a zero to-address gives Burn;
\* anything else is a plain transfer.  Every stored row carries the type of
\* its addresses and none is a plain transfer; a handled plain transfer
\* caused no receipt lookup, no failure report and no row under its hash.
C12_Classification ==
  /\ \A f, t \in LogAddresses :
       Classify(f, t) = IF f = ZERO_ADDRESS THEN "Mint"
                        ELSE IF t = ZERO_ADDRESS THEN "Burn"
                        ELSE "Transfer"
  /\ \A r \in transactions :
       /\ r.fromAddress = ZERO_ADDRESS => r.type = "Mint"
       /\ (r.fromAddress # ZERO_ADDRESS /\ r.toAddress = ZERO_ADDRESS) => r.type = "Burn"
       /\ r.fromAddress = ZERO_ADDRESS \/ r.toAddress = ZERO_ADDRESS
  /\ \A p \in Procs :
       \A j \in PlainTransfers(cyc[p]) :
         /\ j \notin cyc[p].lookups
         /\ j \notin cyc[p].failed
         /\ \A r \in transactions :
              r.hash # ChainLogs[cyc[p].logs[j]].transactionHash

\* C12 witness: the table holds a Mint whose two addresses are zero and a
\* Burn, and the batch in progress has skipped a plain transfer.
C12_Witness ==
  /\ \E r \in transactions :
       r.fromAddress = ZERO_ADDRESS /\ r.toAddress = ZERO_ADDRESS /\ r.type = "Mint"
  /\ \E r \in transactions : r.type = "Burn"
  /\ \E p \in Procs : PlainTransfers(cyc[p]) # {}

\* The transaction hashes of the chain and the spellings of their senders.
ChainHashes == {ChainLogs[k].transactionHash : k \in LogIds}
CallerSpellings == {ReceiptFrom(h) : h \in ChainHashes} \cup {"0xAD", "0xad"}

\* The caller is the configured central-relay address, whatever the case of
\* the two spellings.
IsCentralRelay(caller) == ToLowerCase(caller) = ToLowerCase(ADMIN_WALLET_ADDRESS)

\* The attribution the claim states for a caller and a transaction hash; an
\* actor id of 0 stands for "no actor id".
ClaimedAttribution(caller, hash) ==
  IF IsCentralRelay(caller)
  THEN [executionMethod |-> "CENTRAL_SERVER", spvId |-> MintRequestSpv(hash)]
  ELSE [executionMethod |-> "SPV_INDIVIDUAL", spvId |-> PrimarySpv(ToLowerCase(caller))]

\* C13. Attribution: for every caller spelling and transaction hash the
\* resolver, called as processLogs calls it, returns the claimed attribution;
\* and every stored row carries the claimed attribution of the sender of its
\* transaction, with or without an actor id.
C13_Attribution ==
  /\ \A a \in CallerSpellings : \A h \in ChainHashes :
       determineSPVAttribution(ToLowerCase(a), h) = ClaimedAttribution(a, h)
  /\ \A r \in transactions :
       /\ r.executionMethod = ClaimedAttribution(ReceiptFrom(r.hash), r.hash).executionMethod
       /\ r.spvIdFk = ClaimedAttribution(ReceiptFrom(r.hash), r.hash).spvId

\* C13 witness: the table holds the four cases: relay with and without a mint
\* request, other caller with and without a wallet mapping.
C13_Witness ==
  /\ \E r \in transactions : r.executionMethod = "CENTRAL_SERVER" /\ r.spvIdFk = 7
  /\ \E r \in transactions : r.executionMethod = "CENTRAL_SERVER" /\ r.spvIdFk = 0
  /\ \E r \in transactions : r.executionMethod = "SPV_INDIVIDUAL" /\ r.spvIdFk = 12
  /\ \E r \in transactions : r.executionMethod = "SPV_INDIVIDUAL" /\ r.spvIdFk = 0

\* C14 (as claimed). At most one invocation of handleIndexing is in flight at
\* any time.
C14_AtMostOneCycle ==
  Cardinality({p \in Procs : Running(p)}) <= 1

\* C15. Every started invocation of handleIndexing returns to idle, whatever
\* fails on its way: the checkpoint read, the height query, the log query, the
\* per-log lookups, the row write or the checkpoint write.  (An invocation
\* that is running leads to one that is not: at all times the invocation is
\* idle again later.)
C15_CycleReturnsToIdle ==
  \A p \in Procs : []<>(~Running(p))

\* An invocation in which a row write and then the checkpoint write threw has
\* returned.
C15_Witness ==
  \E p \in Procs :
    /\ cyc[p].pc = "idle"
    /\ cyc[p].result = "error"
    /\ cyc[p].createFailed
    /\ cyc[p].setFailed

\* C17. Bounded replay distance: at every point of every invocation, a stored
\* row above the stored checkpoint lies at most one batch span above it, and
\* while no checkpoint is stored every row lies in the first batch from the
\* deployment block.
C17_BoundedReplayDistance ==
  \A r \in transactions :
    IF checkpoint = NoMeta
    THEN /\ contractPneoBlock # NaN
         /\ r.blockNumber >= contractPneoBlock
         /\ r.blockNumber <= contractPneoBlock + BATCH_SIZE - 1
    ELSE r.blockNumber > checkpoint => r.blockNumber <= checkpoint + BATCH_SIZE

\* A row stands a full batch span above the stored checkpoint after the
\* invocation that wrote it has ended without writing the checkpoint.
C17_Witness ==
  /\ checkpoint # NoMeta
  /\ ~Running(1)
  /\ \E r \in transactions : r.blockNumber = checkpoint + BATCH_SIZE

\* C18. When eth_blockNumber throws, or answers with null or with a value
\* that is neither a hex string nor an object with a string result, the
\* invocation has ended without a log query and without a row written, and
\* the checkpoint is the one it read.
C18_NoHeightNoEffect ==
  \A p \in Procs :
    cyc[p].heightAnswer \in {"throw", "unusable"} =>
      /\ ~Running(p)
      /\ cyc[p].result \in {"error", "noHeight"}
      /\ cyc[p].queries = <<>>
      /\ cyc[p].writes = <<>>
      /\ ~cyc[p].wroteRow
      /\ cyc[p].failed = {}
      /\ checkpoint = cyc[p].meta

\* An invocation ended on an unusable answer while blocks above the stored
\* checkpoint were waiting and rows were in the table.
C18_Witness ==
  /\ cyc[1].heightAnswer = "unusable"
  /\ cyc[1].result = "noHeight"
  /\ checkpoint # NoMeta
  /\ checkpoint < head
  /\ transactions # {}

\* C19. An invocation that found fromBlock <= latestBlock and ran to the end
\* of its loop leaves the stored checkpoint at the height it sampled at its
\* start, and none of its log queries reaches above that height.
C19_EndsAtSampledHeight ==
  \A p \in Procs :
    LET c == cyc[p]
    IN (/\ c.pc = "idle"
        /\ c.result = "completed"
        /\ c.latestBlock # Unset
        /\ JsLe(c.fromBlock, c.latestBlock)) =>
         /\ checkpoint = c.latestBlock
         /\ c.writes # <<>>
         /\ c.writes[Len(c.writes)] = c.latestBlock
         /\ \A k \in 1..Len(c.queries) : c.queries[k][2] <= c.latestBlock

\* Such an invocation has ended while the chain had grown past the height it
\* sampled (the node lags by one block at most).
C19_Witness ==
  /\ cyc[1].pc = "idle"
  /\ cyc[1].result = "completed"
  /\ Len(cyc[1].queries) >= 2
  /\ checkpoint = cyc[1].latestBlock
  /\ head >= cyc[1].latestBlock + 2

\* C20. A call of updateContractAddress, on a well-formed or a malformed
\* address, leaves the address getCurrentContractAddress returns and the
\* address of the indexer's log queries as they were, and throws when the
\* address is malformed.
C20_UpdateKeepsContract ==
  [][LET a == blockchainService'.updateArg
      IN UpdateContractAddress(a) =>
           /\ getCurrentContractAddress' = getCurrentContractAddress
           /\ contractAddress' = contractAddress
           /\ ~isValidEthereumAddress(a) =>
                blockchainService'.updateResult = "threw"]_vars

\* A call with a well-formed address other than the watched one has returned,
\* in whatever case the addresses are spelled.
C20_Witness ==
  /\ blockchainService.updateResult = "returned"
  /\ isValidEthereumAddress(blockchainService.updateArg)
  /\ LowerChars(blockchainService.updateArg) # contractAddress
====
